---- MODULE Spec2Model ----
\* Model of sloth/annotations/container.py: the container factory, the
\* AnnotationContainer load/save protocol and the per-format primitives.
\* A str that the code inspects character by character (glob patterns,
\* paths, text lines, scalars) is a sequence of one-character strings.
EXTENDS Integers, Sequences, FiniteSets, TLC

VARIABLES
    containers_,   \* AnnotationContainerFactory.containers_: <<pattern, class>> pairs
    created,       \* outcome of the last AnnotationContainerFactory.create call
    cls,           \* class of the container instance under study
    filename_,     \* AnnotationContainer.filename_ (None when unset)
    annotations_,  \* AnnotationContainer.annotations_
    basedir_,      \* FileNameListContainer.basedir_ (None until a parse sets it)
    disk,          \* the files that exist: path -> content
    held,          \* the collection the caller got from its last successful load
    saved,         \* history: path -> the collection the last successful save wrote
    ret            \* outcome of the last call on the container

factoryVars == <<containers_, created>>
sessionVars == <<cls, filename_, annotations_, basedir_, disk, held, saved, ret>>
vars == <<containers_, created, cls, filename_, annotations_, basedir_, disk,
          held, saved, ret>>

\* Python's None, comparable with the character sequences that model str.
None == <<"None">>

\* The absence of a constructed instance.
NoInstance == [class |-> "NoneType"]

\* A value no call has produced yet.
NoCall == [op |-> "none"]

\* The caller holds no collection yet.
Nothing == [has |-> FALSE]

\* The caller holds collection v.
Holding(v) == [has |-> TRUE, value |-> v]

----
\* Bounds.

\* Longest registration list handed to the factory.
MaxRegs == 2

\* Longest path handed to _fullpath.
MaxPathLen == 3

\* Most fields on a line, most lines in a line-oriented file.
MaxFields == 8
MaxLines == 2

\* Most records in a structured label file.
MaxRecords == 2

----
\* The container classes of the module.

ContainerClasses ==
    {"AnnotationContainer", "PickleContainer", "JsonContainer", "YamlContainer",
     "FileNameListContainer", "FeretContainer"}

StructuredClasses == {"PickleContainer", "JsonContainer", "YamlContainer"}

\* Dotted names that import_callable resolves to a class of the module.
DottedNames ==
    {"sloth.annotations.container.JsonContainer",
     "sloth.annotations.container.FeretContainer"}

import_callable(item) ==
    IF item = "sloth.annotations.container.JsonContainer" THEN "JsonContainer"
    ELSE "FeretContainer"

----
\* fnmatch.fnmatch on POSIX: normcase is the identity, the match is anchored
\* at both ends, * matches any run, ? one character, [seq] / [!seq] a set.

\* Index in rest (the pattern after a "[") of the closing "]", or 0.
RECURSIVE ScanClose(_, _)
ScanClose(rest, j) ==
    IF j > Len(rest) THEN 0
    ELSE IF rest[j] = "]" THEN j
    ELSE ScanClose(rest, j + 1)

ClassEnd(rest) ==
    LET j1 == IF Len(rest) >= 1 /\ rest[1] = "!" THEN 2 ELSE 1
        j2 == IF Len(rest) >= j1 /\ rest[j1] = "]" THEN j1 + 1 ELSE j1
    IN ScanClose(rest, j2)

SeqRange(s) == {s[i] : i \in 1..Len(s)}

RECURSIVE fnmatch(_, _)
fnmatch(name, pat) ==
    IF pat = <<>> THEN name = <<>>
    ELSE
        LET c == Head(pat)
            rest == Tail(pat)
        IN
        IF c = "*" THEN
            \/ fnmatch(name, rest)
            \/ name # <<>> /\ fnmatch(Tail(name), pat)
        ELSE IF c = "?" THEN
            name # <<>> /\ fnmatch(Tail(name), rest)
        ELSE IF c = "[" THEN
            LET j == ClassEnd(rest) IN
            IF j = 0 THEN
                name # <<>> /\ Head(name) = "[" /\ fnmatch(Tail(name), rest)
            ELSE
                LET stuff == SubSeq(rest, 1, j - 1)
                    neg == Head(stuff) = "!"
                    members == SeqRange(IF neg THEN Tail(stuff) ELSE stuff)
                IN
                /\ name # <<>>
                /\ (Head(name) \in members) # neg
                /\ fnmatch(Tail(name), SubSeq(rest, j + 1, Len(rest)))
        ELSE
            name # <<>> /\ Head(name) = c /\ fnmatch(Tail(name), rest)

----
\* AnnotationContainerFactory.

\* Glob patterns an application registers.
Patterns ==
    { <<"*">>,
      <<"*", ".", "j">>,
      <<"*", ".", "y">>,
      <<"a", "*">>,
      <<"?", ".", "j">>,
      <<"[", "a", "b", "]", ".", "y">>,
      <<"[", "!", "a", "]", "*">> }

\* Filenames handed to create.
FileNames ==
    { <<>>,
      <<"a">>,
      <<"b">>,
      <<"a", ".", "j">>,
      <<"b", ".", "j">>,
      <<"a", "b", ".", "j">>,
      <<"a", ".", "y">>,
      <<"j", ".", "y">>,
      <<".", "y">>,
      <<"j">>,
      <<"[">> }

\* What a registration names: a class or a dotted name of one.
Items == {"PickleContainer", "YamlContainer"} \cup DottedNames

Registrations ==
    UNION { [1..n -> Patterns \X Items] : n \in 0..MaxRegs }

\* __init__: string items are resolved, order is kept.
FactoryInit(containers) ==
    [i \in 1..Len(containers) |->
        <<containers[i][1],
          IF containers[i][2] \in DottedNames
          THEN import_callable(containers[i][2])
          ELSE containers[i][2]>>]

\* The scan of create: the first index whose pattern matches, or 0.
RECURSIVE FirstMatchFrom(_, _, _)
FirstMatchFrom(regs, filename, i) ==
    IF i > Len(regs) THEN 0
    ELSE IF fnmatch(filename, regs[i][1]) THEN i
    ELSE FirstMatchFrom(regs, filename, i + 1)

\* A scan that prefers the last matching registration.
RECURSIVE LastMatchFrom(_, _, _)
LastMatchFrom(regs, filename, i) ==
    IF i < 1 THEN 0
    ELSE IF fnmatch(filename, regs[i][1]) THEN i
    ELSE LastMatchFrom(regs, filename, i - 1)

CreateResultLast(regs, filename) ==
    LET i == LastMatchFrom(regs, filename, Len(regs)) IN
    IF i = 0
    THEN [op |-> "create", filename |-> filename, outcome |-> "raise",
          error |-> "ImproperlyConfigured", instance |-> NoInstance]
    ELSE [op |-> "create", filename |-> filename, outcome |-> "return",
          error |-> "", instance |-> [class |-> regs[i][2], filename_ |-> None,
                                      annotations_ |-> <<>>]]

\* A create that returns None instead of raising.
CreateResultNone(regs, filename) ==
    LET i == FirstMatchFrom(regs, filename, 1) IN
    IF i = 0
    THEN [op |-> "create", filename |-> filename, outcome |-> "return",
          error |-> "", instance |-> NoInstance]
    ELSE [op |-> "create", filename |-> filename, outcome |-> "return",
          error |-> "", instance |-> [class |-> regs[i][2], filename_ |-> None,
                                      annotations_ |-> <<>>]]

CreateResult(regs, filename) ==
    LET i == FirstMatchFrom(regs, filename, 1) IN
    IF i = 0
    THEN [op |-> "create", filename |-> filename, outcome |-> "raise",
          error |-> "ImproperlyConfigured", instance |-> NoInstance]
    ELSE [op |-> "create", filename |-> filename, outcome |-> "return",
          error |-> "", instance |-> [class |-> regs[i][2], filename_ |-> None,
                                      annotations_ |-> <<>>]]

\* create(filename): the constructed instance is the result of
\* AnnotationContainer.__init__, which calls clear().
Create(filename) ==
    /\ created' = CreateResult(containers_, filename)
    /\ UNCHANGED <<containers_, sessionVars>>

\* No factory in play.
FactoryIdle ==
    /\ containers_ = <<>>
    /\ created = NoCall

\* No container session in play.
SessionIdle ==
    /\ cls = "AnnotationContainer"
    /\ filename_ = None
    /\ annotations_ = <<>>
    /\ basedir_ = None
    /\ disk = <<>>
    /\ held = Nothing
    /\ saved = <<>>
    /\ ret = NoCall

\* A factory constructed from any registration list.
InitFactory ==
    /\ \E containers \in Registrations : containers_ = FactoryInit(containers)
    /\ created = NoCall
    /\ SessionIdle

NextFactory == \E filename \in FileNames : Create(filename)

SpecFactory == InitFactory /\ [][NextFactory]_vars

----
\* posixpath.dirname and posixpath.join, character by character.

AllSlashes(s) == \A i \in 1..Len(s) : s[i] = "/"

\* str.rfind("/") + 1: the index of the last "/", or 0.
RECURSIVE LastSlash(_, _)
LastSlash(p, i) ==
    IF i = 0 THEN 0
    ELSE IF p[i] = "/" THEN i
    ELSE LastSlash(p, i - 1)

\* str.rstrip("/").
RECURSIVE RStripSlash(_)
RStripSlash(s) ==
    IF s # <<>> /\ s[Len(s)] = "/" THEN RStripSlash(SubSeq(s, 1, Len(s) - 1))
    ELSE s

dirname(p) ==
    LET head == SubSeq(p, 1, LastSlash(p, Len(p))) IN
    IF head # <<>> /\ ~AllSlashes(head) THEN RStripSlash(head) ELSE head

\* A join that re-roots an absolute second component.
joinReRoot(a, b) ==
    IF a = <<>> \/ a[Len(a)] = "/" THEN a \o b
    ELSE a \o <<"/">> \o b

join(a, b) ==
    IF b # <<>> /\ Head(b) = "/" THEN b
    ELSE IF a = <<>> \/ a[Len(a)] = "/" THEN a \o b
    ELSE a \o <<"/">> \o b

\* _fullpath with the bound label file given as an argument.
fullpath(bound, filename) ==
    IF bound # None THEN join(dirname(bound), filename) ELSE filename

----
\* Line-oriented files: the text is a sequence of characters, iterated line
\* by line as a Python file object does (each line keeps its "\n").

Whitespace == {" ", "\n"}

Digits == <<"0", "1", "2", "3", "4", "5", "6", "7", "8", "9">>

IsDigit(c) == \E i \in 1..10 : Digits[i] = c

DigitValue(c) == (CHOOSE i \in 1..10 : Digits[i] = c) - 1

\* Index of the first "\n" of t, or 0.
RECURSIVE FirstNewline(_, _)
FirstNewline(t, i) ==
    IF i > Len(t) THEN 0
    ELSE IF t[i] = "\n" THEN i
    ELSE FirstNewline(t, i + 1)

\* The lines a file iteration yields.
RECURSIVE FileLines(_)
FileLines(t) ==
    IF t = <<>> THEN <<>>
    ELSE LET k == FirstNewline(t, 1) IN
         IF k = 0 THEN <<t>>
         ELSE <<SubSeq(t, 1, k)>> \o FileLines(SubSeq(t, k + 1, Len(t)))

\* str.strip().
RECURSIVE LStrip(_)
LStrip(s) ==
    IF s # <<>> /\ Head(s) \in Whitespace THEN LStrip(Tail(s)) ELSE s

RECURSIVE RStrip(_)
RStrip(s) ==
    IF s # <<>> /\ s[Len(s)] \in Whitespace THEN RStrip(SubSeq(s, 1, Len(s) - 1))
    ELSE s

strip(s) == RStrip(LStrip(s))

\* Length of the run of non-whitespace characters that starts s.
RECURSIVE WordLen(_)
WordLen(s) ==
    IF s = <<>> \/ Head(s) \in Whitespace THEN 0 ELSE 1 + WordLen(Tail(s))

\* str.split(): the maximal runs of non-whitespace characters.
RECURSIVE split(_)
split(s) ==
    LET t == LStrip(s) IN
    IF t = <<>> THEN <<>>
    ELSE LET n == WordLen(t) IN
         <<SubSeq(t, 1, n)>> \o split(SubSeq(t, n + 1, Len(t)))

\* int(tok) accepts an optional sign followed by decimal digits.
Unsigned(tok) ==
    IF tok # <<>> /\ Head(tok) \in {"+", "-"} THEN Tail(tok) ELSE tok

IsInt(tok) ==
    /\ Unsigned(tok) # <<>>
    /\ \A i \in 1..Len(Unsigned(tok)) : IsDigit(Unsigned(tok)[i])

RECURSIVE DecimalValue(_)
DecimalValue(ds) ==
    IF ds = <<>> THEN 0
    ELSE 10 * DecimalValue(SubSeq(ds, 1, Len(ds) - 1)) + DigitValue(ds[Len(ds)])

int(tok) ==
    IF tok # <<>> /\ Head(tok) = "-" THEN 0 - DecimalValue(Unsigned(tok))
    ELSE DecimalValue(Unsigned(tok))

----
\* FileNameListContainer.parseFromFile.

FileItem(line) ==
    [filename |-> strip(line), type |-> "image", annotations |-> <<>>]

\* A parser that drops the lines that are blank once stripped.
RECURSIVE FileNameListItemsSkipBlank(_)
FileNameListItemsSkipBlank(lines) ==
    IF lines = <<>> THEN <<>>
    ELSE IF strip(Head(lines)) = <<>> THEN FileNameListItemsSkipBlank(Tail(lines))
    ELSE <<FileItem(Head(lines))>> \o FileNameListItemsSkipBlank(Tail(lines))

RECURSIVE FileNameListItems(_)
FileNameListItems(lines) ==
    IF lines = <<>> THEN <<>>
    ELSE <<FileItem(Head(lines))>> \o FileNameListItems(Tail(lines))

----
\* FeretContainer.parseFromFile.

\* The error that building the record of one line raises, "" when none:
\* s[0], then int(s[1]) .. int(s[6]) are evaluated in this order.
RECURSIVE FeretFieldError(_, _)
FeretFieldError(s, k) ==
    IF k > 6 THEN ""
    ELSE IF Len(s) < k + 1 THEN "IndexError"
    ELSE IF k >= 1 /\ ~IsInt(s[k + 1]) THEN "ValueError"
    ELSE FeretFieldError(s, k + 1)

FeretItem(s) ==
    [filename |-> s[1] \o <<".", "b", "m", "p">>,
     type |-> "image",
     annotations |->
        << [type |-> "point", class |-> "left_eye", x |-> int(s[2]), y |-> int(s[3])],
           [type |-> "point", class |-> "right_eye", x |-> int(s[4]), y |-> int(s[5])],
           [type |-> "point", class |-> "mouth", x |-> int(s[6]), y |-> int(s[7])] >>]

\* The loop over the lines: the first failing line raises, nothing is returned.
RECURSIVE FeretLoop(_, _)
FeretLoop(lines, annotations) ==
    IF lines = <<>> THEN [raised |-> "", value |-> annotations]
    ELSE
        LET s == split(Head(lines))
            err == FeretFieldError(s, 0)
        IN
        IF err # "" THEN [raised |-> err, value |-> None]
        ELSE FeretLoop(Tail(lines), Append(annotations, FeretItem(s)))

----
\* Python values of the structured formats, tagged with their type.
PyStr(s) == [t |-> "str", s |-> s]
PyInt(n) == [t |-> "int", n |-> n]
PyList(items) == [t |-> "list", items |-> items]
PyDict(m) == [t |-> "dict", m |-> m]
PyNone == [t |-> "none"]
PyObject == [t |-> "object"]

\* The decimal text of an int.
RECURSIVE DecimalText(_)
DecimalText(n) ==
    IF n < 10 THEN <<Digits[n + 1]>>
    ELSE DecimalText(n \div 10) \o <<Digits[(n % 10) + 1]>>
IntText(n) == IF n < 0 THEN <<"-">> \o DecimalText(0 - n) ELSE DecimalText(n)

KeyOrder == <<"annotations", "class", "filename", "type", "x", "y">>
RECURSIVE KeysFrom(_, _)
KeysFrom(m, i) ==
    IF i > Len(KeyOrder) THEN <<>>
    ELSE (IF KeyOrder[i] \in DOMAIN m THEN <<KeyOrder[i]>> ELSE <<>>) \o KeysFrom(m, i + 1)
Keys(m) == KeysFrom(m, 1)

Punct(c) == <<"p", c>>
Indent(level) == <<"w", level>>

\* json.dump(v, f, indent=4)
RECURSIVE JsonEncode(_, _)
RECURSIVE JsonEncodeItems(_, _, _)
RECURSIVE JsonEncodeMembers(_, _, _, _)
JsonEncode(v, level) ==
    IF v.t = "str" THEN << <<"q", v.s>> >>
    ELSE IF v.t = "int" THEN << <<"u", IntText(v.n)>> >>
    ELSE IF v.t = "none" THEN << <<"u", <<"n", "u", "l", "l">> >> >>
    ELSE IF v.t = "list" THEN
        IF v.items = <<>> THEN <<Punct("["), Punct("]")>>
        ELSE <<Punct("[")>> \o JsonEncodeItems(v.items, 1, level + 1)
             \o <<Indent(level), Punct("]")>>
    ELSE
        IF Keys(v.m) = <<>> THEN <<Punct("{"), Punct("}")>>
        ELSE <<Punct("{")>> \o JsonEncodeMembers(v.m, Keys(v.m), 1, level + 1)
             \o <<Indent(level), Punct("}")>>
JsonEncodeItems(items, i, level) ==
    IF i > Len(items) THEN <<>>
    ELSE (IF i > 1 THEN <<Punct(",")>> ELSE <<>>)
         \o <<Indent(level)>> \o JsonEncode(items[i], level)
         \o JsonEncodeItems(items, i + 1, level)
JsonEncodeMembers(m, keys, i, level) ==
    IF i > Len(keys) THEN <<>>
    ELSE (IF i > 1 THEN <<Punct(",")>> ELSE <<>>)
         \o <<Indent(level), <<"k", keys[i]>>, Punct(":")>>
         \o JsonEncode(m[keys[i]], level)
         \o JsonEncodeMembers(m, keys, i + 1, level)

\* The reader shared by json.load and yaml.load: quoted and unquoted
\* scalars, [ ] sequences and { } mappings, whitespace skipped.
RECURSIVE SkipSpace(_)
SkipSpace(ts) ==
    IF ts # <<>> /\ Head(ts)[1] = "w" THEN SkipSpace(Tail(ts)) ELSE ts

Fail == [ok |-> FALSE, val |-> PyNone, rest |-> <<>>]
Ok(v, rest) == [ok |-> TRUE, val |-> v, rest |-> rest]

IsPunct(ts, c) == ts # <<>> /\ Head(ts)[1] = "p" /\ Head(ts)[2] = c

RECURSIVE FlowValue(_, _)
RECURSIVE FlowItems(_, _, _)
RECURSIVE FlowMembers(_, _, _)
FlowValue(ts0, yaml) ==
    LET ts == SkipSpace(ts0) IN
    IF ts = <<>> THEN Fail
    ELSE LET tok == Head(ts) IN
    IF tok[1] = "q" THEN Ok(PyStr(tok[2]), Tail(ts))
    ELSE IF tok[1] = "u" THEN
        IF IsInt(tok[2]) THEN Ok(PyInt(int(tok[2])), Tail(ts))
        ELSE IF tok[2] = <<"n", "u", "l", "l">> THEN Ok(PyNone, Tail(ts))
        ELSE IF yaml THEN Ok(PyStr(tok[2]), Tail(ts))
        ELSE Fail
    ELSE IF IsPunct(ts, "[") THEN
        LET r == SkipSpace(Tail(ts)) IN
        IF IsPunct(r, "]") THEN Ok(PyList(<<>>), Tail(r))
        ELSE FlowItems(r, <<>>, yaml)
    ELSE IF IsPunct(ts, "{") THEN
        LET r == SkipSpace(Tail(ts)) IN
        IF IsPunct(r, "}") THEN Ok(PyDict(<<>>), Tail(r))
        ELSE FlowMembers(r, <<>>, yaml)
    ELSE Fail
FlowItems(ts, acc, yaml) ==
    LET item == FlowValue(ts, yaml) IN
    IF ~item.ok THEN Fail
    ELSE LET r == SkipSpace(item.rest) IN
         IF IsPunct(r, ",") THEN FlowItems(Tail(r), Append(acc, item.val), yaml)
         ELSE IF IsPunct(r, "]") THEN Ok(PyList(Append(acc, item.val)), Tail(r))
         ELSE Fail
FlowMembers(ts0, acc, yaml) ==
    LET ts == SkipSpace(ts0) IN
    IF ts = <<>> \/ Head(ts)[1] # "k" \/ ~IsPunct(Tail(ts), ":") THEN Fail
    ELSE LET key == Head(ts)[2]
             item == FlowValue(Tail(Tail(ts)), yaml)
         IN
         IF ~item.ok THEN Fail
         ELSE LET r == SkipSpace(item.rest)
                  m == [k \in DOMAIN acc \cup {key} |->
                            IF k = key THEN item.val ELSE acc[k]]
              IN
              IF IsPunct(r, ",") THEN FlowMembers(Tail(r), m, yaml)
              ELSE IF IsPunct(r, "}") THEN Ok(PyDict(m), Tail(r))
              ELSE Fail

JsonDecode(ts) ==
    LET r == FlowValue(ts, FALSE) IN
    IF r.ok /\ SkipSpace(r.rest) = <<>> THEN r ELSE Fail


\* A yaml.dump that writes every str plain.
YamlNeverQuotes(s) == FALSE

\* yaml.dump: flow punctuation; a str that a reader would resolve to another
\* type is written quoted.
YamlNeedsQuotes(s) == IsInt(s) \/ s = <<"n", "u", "l", "l">> \/ s = <<>>

RECURSIVE YamlEncode(_)
RECURSIVE YamlEncodeItems(_, _)
RECURSIVE YamlEncodeMembers(_, _, _)
YamlEncode(v) ==
    IF v.t = "str" THEN
        IF YamlNeedsQuotes(v.s) THEN << <<"q", v.s>> >> ELSE << <<"u", v.s>> >>
    ELSE IF v.t = "int" THEN << <<"u", IntText(v.n)>> >>
    ELSE IF v.t = "none" THEN << <<"u", <<"n", "u", "l", "l">> >> >>
    ELSE IF v.t = "list" THEN
        <<Punct("[")>> \o YamlEncodeItems(v.items, 1) \o <<Punct("]")>>
    ELSE <<Punct("{")>> \o YamlEncodeMembers(v.m, Keys(v.m), 1) \o <<Punct("}")>>
YamlEncodeItems(items, i) ==
    IF i > Len(items) THEN <<>>
    ELSE (IF i > 1 THEN <<Punct(","), Indent(0)>> ELSE <<>>)
         \o YamlEncode(items[i]) \o YamlEncodeItems(items, i + 1)
YamlEncodeMembers(m, keys, i) ==
    IF i > Len(keys) THEN <<>>
    ELSE (IF i > 1 THEN <<Punct(","), Indent(0)>> ELSE <<>>)
         \o << <<"k", keys[i]>>, Punct(":"), Indent(0)>>
         \o YamlEncode(m[keys[i]]) \o YamlEncodeMembers(m, keys, i + 1)

YamlDecode(ts) ==
    IF SkipSpace(ts) = <<>> THEN Ok(PyNone, <<>>)
    ELSE LET r == FlowValue(ts, TRUE) IN
         IF r.ok /\ SkipSpace(r.rest) = <<>> THEN r ELSE Fail

\* pickle protocol 0 as a sequence of opcodes.
RECURSIVE PickleSave(_)
RECURSIVE PickleSaveItems(_, _)
RECURSIVE PickleSaveMembers(_, _, _)
PickleSave(v) ==
    IF v.t = "str" THEN << <<"S", v.s>> >>
    ELSE IF v.t = "int" THEN << <<"I", IntText(v.n)>> >>
    ELSE IF v.t = "none" THEN << <<"N">> >>
    ELSE IF v.t = "list" THEN << <<"(">>, <<"l">> >> \o PickleSaveItems(v.items, 1)
    ELSE << <<"(">>, <<"d">> >> \o PickleSaveMembers(v.m, Keys(v.m), 1)
PickleSaveItems(items, i) ==
    IF i > Len(items) THEN <<>>
    ELSE PickleSave(items[i]) \o << <<"a">> >> \o PickleSaveItems(items, i + 1)
PickleSaveMembers(m, keys, i) ==
    IF i > Len(keys) THEN <<>>
    ELSE << <<"K", keys[i]>> >> \o PickleSave(m[keys[i]]) \o << <<"s">> >>
         \o PickleSaveMembers(m, keys, i + 1)

PickleEncode(v) == PickleSave(v) \o << <<".">> >>

Mark == [t |-> "mark"]
PyKey(k) == [t |-> "key", k |-> k]

Pop(stack, n) == SubSeq(stack, 1, Len(stack) - n)

\* The state of the unpickler: its stack, whether an opcode failed, and
\* whether STOP has been read.
PickleStart == [ok |-> TRUE, stopped |-> FALSE, stack |-> <<>>]
PickleFail == [ok |-> FALSE, stopped |-> TRUE, stack |-> <<>>]
PickleOk(stack) == [ok |-> TRUE, stopped |-> FALSE, stack |-> stack]

\* One opcode of the unpickler; nothing is read after STOP or a failure.
PickleStep(op, st) ==
    LET stack == st.stack
        n == Len(stack)
    IN
    IF st.stopped THEN st
    ELSE
    CASE op[1] = "." ->
            IF n >= 1 THEN [ok |-> TRUE, stopped |-> TRUE, stack |-> stack]
            ELSE PickleFail
      [] op[1] = "(" -> PickleOk(Append(stack, Mark))
      [] op[1] = "S" -> PickleOk(Append(stack, PyStr(op[2])))
      [] op[1] = "K" -> PickleOk(Append(stack, PyKey(op[2])))
      [] op[1] = "N" -> PickleOk(Append(stack, PyNone))
      [] op[1] = "I" ->
            IF IsInt(op[2]) THEN PickleOk(Append(stack, PyInt(int(op[2]))))
            ELSE PickleFail
      [] op[1] = "l" ->
            IF n >= 1 /\ stack[n] = Mark
            THEN PickleOk(Append(Pop(stack, 1), PyList(<<>>)))
            ELSE PickleFail
      [] op[1] = "d" ->
            IF n >= 1 /\ stack[n] = Mark
            THEN PickleOk(Append(Pop(stack, 1), PyDict(<<>>)))
            ELSE PickleFail
      [] op[1] = "a" ->
            IF n >= 2 /\ stack[n - 1].t = "list"
            THEN PickleOk(Append(Pop(stack, 2),
                     PyList(Append(stack[n - 1].items, stack[n]))))
            ELSE PickleFail
      [] op[1] = "s" ->
            IF n >= 3 /\ stack[n - 2].t = "dict" /\ stack[n - 1].t = "key"
            THEN LET m == stack[n - 2].m
                     key == stack[n - 1].k
                 IN PickleOk(Append(Pop(stack, 3),
                        PyDict([k \in DOMAIN m \cup {key} |->
                                   IF k = key THEN stack[n] ELSE m[k]])))
            ELSE PickleFail
      [] OTHER -> PickleFail

\* The opcodes lo..hi run in order from state st.
RECURSIVE PickleRun(_, _, _, _)
PickleRun(ops, lo, hi, st) ==
    IF lo > hi THEN st
    ELSE IF lo = hi THEN PickleStep(ops[lo], st)
    ELSE LET mid == (lo + hi) \div 2
             half == PickleRun(ops, lo, mid, st)
         IN IF half.ok THEN PickleRun(ops, mid + 1, hi, half) ELSE PickleFail

\* pickle.load: the value on top of the stack at STOP; a stream that ends
\* before STOP is an error.
Unpickle(ops) ==
    LET st == PickleRun(ops, 1, Len(ops), PickleStart) IN
    IF st.ok /\ st.stopped THEN Ok(st.stack[Len(st.stack)], <<>>) ELSE Fail

PickleDecode(ops) == Unpickle(ops)

----
\* Input files for the parsers.

\* Field k of a generated line: a base name, then decimal coordinates.
GoodField(k) ==
    IF k = 1 THEN <<"s">>
    ELSE IF k = 2 THEN <<"1", "0">>
    ELSE <<Digits[((k - 1) % 9) + 2]>>

\* A line of n fields whose field bad (0: none) is not a number.
RECURSIVE LineFields(_, _, _)
LineFields(n, bad, k) ==
    IF k > n THEN <<>>
    ELSE (IF k > 1 THEN <<" ">> ELSE <<>>)
         \o (IF k = bad THEN <<"x">> ELSE GoodField(k))
         \o LineFields(n, bad, k + 1)

InputLines ==
    { LineFields(n, bad, 1) \o <<"\n">> :
        n \in 0..MaxFields, bad \in {0} \cup 2..MaxFields }
    \cup { <<" ", "s", " ", "\n">>, <<" ", "\n">>, <<"s", " ", "s", "\n">> }

RECURSIVE Concat(_)
Concat(ls) == IF ls = <<>> THEN <<>> ELSE Head(ls) \o Concat(Tail(ls))

\* The lines around the line under study: a well-formed Feret line, a
\* blank line, a bare filename.
PlainLines ==
    { LineFields(7, 0, 1) \o <<"\n">>, <<"\n">>, <<"s", "\n">> }

\* Files of up to MaxLines lines, one of them any of InputLines and the
\* others plain; the last line may lack its newline.
InputTexts ==
    LET whole ==
            { <<>> } \cup
            UNION { { Concat([i \in 1..n |-> IF i = k THEN odd ELSE others[i]]) :
                        k \in 1..n, odd \in InputLines, others \in [1..n -> PlainLines] } :
                    n \in 1..MaxLines }
    IN whole \cup { SubSeq(t, 1, Len(t) - 1) : t \in whole \ {<<>>} }

----
\* The two primitives, by class, on the content of a file.

\* A value no serializer accepts.
RECURSIVE Serializable(_)
Serializable(v) ==
    IF v.t = "object" THEN FALSE
    ELSE IF v.t = "list" THEN \A i \in 1..Len(v.items) : Serializable(v.items[i])
    ELSE IF v.t = "dict" THEN \A k \in DOMAIN v.m : Serializable(v.m[k])
    ELSE TRUE

\* Whether the primitive of class c calls open().
ParseOpened(c) == c # "AnnotationContainer"
SerializeOpened(c) == c \in StructuredClasses

\* parseFromFile of class c on filename: what it raises ("" when it
\* returns) and the value it returns.
parseFromFile(c, filename) ==
    IF c = "AnnotationContainer" THEN
        [raised |-> "NotImplementedException", value |-> None]
    ELSE IF filename \notin DOMAIN disk THEN
        [raised |-> "IOError", value |-> None]
    ELSE IF c = "FileNameListContainer" THEN
        [raised |-> "", value |-> FileNameListItems(FileLines(disk[filename]))]
    ELSE IF c = "FeretContainer" THEN
        FeretLoop(FileLines(disk[filename]), <<>>)
    ELSE
        LET r == IF c = "PickleContainer" THEN PickleDecode(disk[filename])
                 ELSE IF c = "JsonContainer" THEN JsonDecode(disk[filename])
                 ELSE YamlDecode(disk[filename])
        IN
        IF r.ok THEN [raised |-> "", value |-> r.val]
        ELSE [raised |-> IF c = "PickleContainer" THEN "UnpicklingError"
                         ELSE IF c = "YamlContainer" THEN "YAMLError"
                         ELSE "ValueError",
              value |-> None]

\* serializeToFile of class c: what it raises and the content it leaves in
\* the file (written is FALSE when the file is not touched). open(fname, "w")
\* truncates the file before the serializer runs. NotImplemented is not
\* callable, so raise NotImplemented(...) is a TypeError.
serializeToFile(c, target, annotations, env) ==
    IF c = "AnnotationContainer" THEN
        [raised |-> "NotImplementedException", written |-> FALSE, content |-> <<>>]
    ELSE IF c \in {"FileNameListContainer", "FeretContainer"} THEN
        [raised |-> "TypeError", written |-> FALSE, content |-> <<>>]
    ELSE IF target = None THEN
        [raised |-> "TypeError", written |-> FALSE, content |-> <<>>]
    ELSE IF env = "IOError" THEN
        [raised |-> "IOError", written |-> FALSE, content |-> <<>>]
    ELSE IF ~Serializable(annotations) THEN
        [raised |-> IF c = "PickleContainer" THEN "PicklingError"
                    ELSE IF c = "YamlContainer" THEN "RepresenterError"
                    ELSE "TypeError",
         written |-> TRUE, content |-> <<>>]
    ELSE
        [raised |-> "", written |-> TRUE,
         content |-> IF c = "PickleContainer" THEN PickleEncode(annotations)
                     ELSE IF c = "JsonContainer" THEN JsonEncode(annotations, 0)
                     ELSE YamlEncode(annotations)]

----
\* The container session: load, save, clear and _fullpath on one instance.

\* Python falsy filename arguments: the empty string and None.
Falsy == { <<>>, None }

\* Whether open(fname, "w") succeeds is up to the environment.
WriteEnv == {"ok", "IOError"}

\* What a caller hands to save: the collection it holds, an empty list, or
\* a list with a value the serializers reject.
SaveChoices == {"held", "empty", "unserializable"}

SaveArg(which) ==
    IF which = "held" THEN held.value
    ELSE IF which = "empty" THEN PyList(<<>>)
    ELSE PyList(<<PyObject>>)

Call(op, arg, before, passed, parseCalled, opened, raised, error, value) ==
    [op |-> op, arg |-> arg, before |-> before, passed |-> passed,
     parseCalled |-> parseCalled, opened |-> opened,
     outcome |-> IF error = "" THEN "return" ELSE "raise",
     raised |-> raised, error |-> error, value |-> value]

\* clear().
Clear ==
    /\ annotations_' = <<>>
    /\ filename_' = None
    /\ ret' = Call("clear", None, filename_, None, FALSE, FALSE, "", "", None)
    /\ UNCHANGED <<cls, basedir_, disk, held, saved, factoryVars>>

\* load(filename) without the argument check.
LoadUnguarded(filename) ==
    LET r == IF filename = None THEN [raised |-> "TypeError", value |-> None]
             ELSE parseFromFile(cls, filename)
    IN
    /\ filename_' = filename
    /\ basedir_' = IF cls = "FileNameListContainer" /\ filename # None
                   THEN dirname(filename) ELSE basedir_
    /\ held' = IF r.raised = "" THEN Holding(r.value) ELSE held
    /\ ret' = Call("load", filename, filename_, filename, TRUE, ParseOpened(cls),
                   r.raised, r.raised, r.value)
    /\ UNCHANGED <<cls, annotations_, disk, saved, factoryVars>>

\* load(filename) binding filename_ once the parse primitive has returned.
LoadBindAfter(filename) ==
    IF filename \in Falsy THEN
        /\ ret' = Call("load", filename, filename_, None, FALSE, FALSE, "",
                       "InvalidArgumentException", None)
        /\ UNCHANGED <<cls, filename_, annotations_, basedir_, disk, held, saved,
                       factoryVars>>
    ELSE
        LET r == parseFromFile(cls, filename) IN
        /\ filename_' = IF r.raised = "" THEN filename ELSE filename_
        /\ basedir_' = IF cls = "FileNameListContainer"
                       THEN dirname(filename) ELSE basedir_
        /\ held' = IF r.raised = "" THEN Holding(r.value) ELSE held
        /\ ret' = Call("load", filename, filename_, filename, TRUE, ParseOpened(cls),
                       r.raised, r.raised, r.value)
        /\ UNCHANGED <<cls, annotations_, disk, saved, factoryVars>>

\* load(filename): the argument check, the binding of filename_, then the
\* parse primitive, whose exception is not caught. The caller keeps the
\* returned collection.
Load(filename) ==
    IF filename \in Falsy THEN
        /\ ret' = Call("load", filename, filename_, None, FALSE, FALSE, "",
                       "InvalidArgumentException", None)
        /\ UNCHANGED <<cls, filename_, annotations_, basedir_, disk, held, saved,
                       factoryVars>>
    ELSE
        LET r == parseFromFile(cls, filename) IN
        /\ filename_' = filename
        /\ basedir_' = IF cls = "FileNameListContainer"
                       THEN dirname(filename) ELSE basedir_
        /\ held' = IF r.raised = "" THEN Holding(r.value) ELSE held
        /\ ret' = Call("load", filename, filename_, filename, TRUE, ParseOpened(cls),
                       r.raised, r.raised, r.value)
        /\ UNCHANGED <<cls, annotations_, disk, saved, factoryVars>>

\* The file system after serializeToFile returned r for target.
DiskAfter(target, r) ==
    IF r.written
    THEN [p \in DOMAIN disk \cup {target} |-> IF p = target THEN r.content ELSE disk[p]]
    ELSE disk

\* The history of saves after serializeToFile returned r for target.
SavedAfter(target, annotations, r) ==
    IF r.raised = ""
    THEN [p \in DOMAIN saved \cup {target} |->
             IF p = target THEN annotations ELSE saved[p]]
    ELSE IF r.written THEN [p \in DOMAIN saved \ {target} |-> saved[p]]
    ELSE saved

\* save(annotations, filename) that keeps the old binding.
SaveNoRebind(annotations, filename, env) ==
    LET target == IF filename \in Falsy THEN filename_ ELSE filename
        r == serializeToFile(cls, target, annotations, env)
    IN
    /\ disk' = DiskAfter(target, r)
    /\ saved' = SavedAfter(target, annotations, r)
    /\ ret' = Call("save", filename, filename_, target, FALSE, SerializeOpened(cls),
                   r.raised, r.raised, None)
    /\ UNCHANGED <<cls, filename_, annotations_, basedir_, held, factoryVars>>

\* save(annotations, filename=""): an empty filename is replaced by
\* filename(), the serialize primitive runs, and filename_ is rebound only
\* when the primitive has returned.
Save(annotations, filename, env) ==
    LET target == IF filename \in Falsy THEN filename_ ELSE filename
        r == serializeToFile(cls, target, annotations, env)
    IN
    /\ filename_' = IF r.raised = "" THEN target ELSE filename_
    /\ disk' = DiskAfter(target, r)
    /\ saved' = SavedAfter(target, annotations, r)
    /\ ret' = Call("save", filename, filename_, target, FALSE, SerializeOpened(cls),
                   r.raised, r.raised, None)
    /\ UNCHANGED <<cls, annotations_, basedir_, held, factoryVars>>

\* _fullpath(filename) on the instance.
Fullpath(filename) ==
    /\ ret' = Call("_fullpath", filename, filename_, None, FALSE, FALSE, "", "",
                   fullpath(filename_, filename))
    /\ UNCHANGED <<cls, filename_, annotations_, basedir_, disk, held, saved,
                   factoryVars>>

----
\* Specification of one container session.

\* Label-file paths used in a session.
SessionPaths ==
    { <<"a">>, <<"d", "/", "a">> }

Label(x, y) ==
    PyDict([type |-> PyStr(<<"p">>), class |-> PyStr(<<"e">>),
            x |-> PyInt(x), y |-> PyInt(y)])

Record(name, labels) ==
    PyDict([filename |-> PyStr(name), type |-> PyStr(<<"i">>),
            annotations |-> PyList(labels)])

SampleCollection == PyList(<<Record(<<"a">>, <<Label(10, 3)>>)>>)

\* The writer of class c.
Encode(c, v) ==
    IF c = "PickleContainer" THEN PickleEncode(v)
    ELSE IF c = "JsonContainer" THEN JsonEncode(v, 0)
    ELSE YamlEncode(v)

\* Contents a file may have when a session of class c starts: well-formed
\* and malformed ones of the format of c.
SessionFiles(c) ==
    IF c = "AnnotationContainer" THEN { <<>> }
    ELSE IF c = "FileNameListContainer" THEN { <<"s", "\n">> }
    ELSE IF c = "FeretContainer"
    THEN { LineFields(7, 0, 1) \o <<"\n">>, LineFields(3, 0, 1) \o <<"\n">> }
    ELSE IF c = "PickleContainer"
    THEN { PickleEncode(SampleCollection), << <<"a">> >> }
    ELSE { Encode(c, SampleCollection), << Punct("]") >> }

\* A freshly constructed instance of any class (__init__ calls clear()),
\* and some files on disk.
Init ==
    /\ cls \in ContainerClasses
    /\ filename_ = None
    /\ annotations_ = <<>>
    /\ basedir_ = None
    /\ disk \in UNION { [D -> SessionFiles(cls)] : D \in SUBSET SessionPaths }
    /\ held = Nothing
    /\ saved = <<>>
    /\ ret = NoCall
    /\ FactoryIdle

Next ==
    \/ Clear
    \/ \E filename \in SessionPaths \cup Falsy : Load(filename)
    \/ \E which \in SaveChoices, filename \in SessionPaths \cup {<<>>}, env \in WriteEnv :
          /\ which = "held" => held.has
          /\ Save(SaveArg(which), filename, env)
    \/ \E filename \in SessionPaths : Fullpath(filename)

Spec == Init /\ [][Next]_vars

----
\* Specification of _fullpath over every path up to MaxPathLen.

PathAlphabet == {"/", "a"}

Paths == UNION { [1..n -> PathAlphabet] : n \in 0..MaxPathLen }

\* One (empty) label file somewhere, and a fresh container.
InitPath ==
    /\ cls \in ContainerClasses
    /\ filename_ = None
    /\ annotations_ = <<>>
    /\ basedir_ = None
    /\ \E f \in Paths \ {<<>>} : disk = [p \in {f} |-> <<>>]
    /\ held = Nothing
    /\ saved = <<>>
    /\ ret = NoCall
    /\ FactoryIdle

NextPath ==
    \/ \E filename \in DOMAIN disk : Load(filename)
    \/ \E filename \in Paths : Fullpath(filename)

SpecPath == InitPath /\ [][NextPath]_vars

----
\* Specification of the line-oriented parsers on generated files.

ParsePath == <<"a">>

InitParse ==
    /\ cls \in {"FileNameListContainer", "FeretContainer"}
    /\ filename_ = None
    /\ annotations_ = <<>>
    /\ basedir_ = None
    /\ \E t \in InputTexts : disk = [p \in {ParsePath} |-> t]
    /\ held = Nothing
    /\ saved = <<>>
    /\ ret = NoCall
    /\ FactoryIdle

NextParse == Load(ParsePath)

SpecParse == InitParse /\ [][NextParse]_vars

----
\* Specification of load / save / load on the structured formats.

RecordNames == { <<"a">>, <<"1", "0">> }

Records ==
    { Record(name, labels) : name \in RecordNames, labels \in { <<>>, <<Label(10, 3)>> } }

Collections ==
    { PyList(rs) : rs \in UNION { [1..n -> Records] : n \in 0..MaxRecords } }

NotSpace(tok) == tok[1] # "w"

\* Well-formed label files of class c: what the writer of c produces, and
\* documents laid out by another writer (JSON without indentation, YAML in
\* JSON syntax).
WellFormedFiles(c) ==
    IF c = "PickleContainer" THEN { PickleEncode(v) : v \in Collections }
    ELSE IF c = "JsonContainer"
    THEN { JsonEncode(v, 0) : v \in Collections }
         \cup { SelectSeq(JsonEncode(v, 0), NotSpace) : v \in Collections }
    ELSE { YamlEncode(v) : v \in Collections }
         \cup { JsonEncode(v, 0) : v \in Collections }

RoundTripPaths == { <<"a">>, <<"b">> }

InitRoundTrip ==
    /\ cls \in StructuredClasses
    /\ filename_ = None
    /\ annotations_ = <<>>
    /\ basedir_ = None
    /\ \E f \in WellFormedFiles(cls) : disk = [p \in {<<"a">>} |-> f]
    /\ held = Nothing
    /\ saved = <<>>
    /\ ret = NoCall
    /\ FactoryIdle

NextRoundTrip ==
    \/ \E filename \in RoundTripPaths : Load(filename)
    \/ \E filename \in RoundTripPaths \cup {<<>>} :
          /\ held.has
          /\ Save(held.value, filename, "ok")

SpecRoundTrip == InitRoundTrip /\ [][NextRoundTrip]_vars

----
\* C1: create returns an instance of the class registered with the first
\* pattern, in registration order, that matches the filename, also when a
\* later registration matches as well.
C1_FirstMatchWins ==
    \A i \in 1..Len(containers_) :
        ( /\ created # NoCall
          /\ fnmatch(created.filename, containers_[i][1])
          /\ \A k \in 1..(i - 1) : ~fnmatch(created.filename, containers_[k][1]) )
        => ( /\ created.outcome = "return"
             /\ created.instance # NoInstance
             /\ created.instance.class = containers_[i][2] )

\* A create whose filename matches "*" first and a more specific pattern,
\* registered later with another class, as well.
C1_Witness ==
    /\ created # NoCall
    /\ created.outcome = "return"
    /\ \E i, k \in 1..Len(containers_) :
        /\ i < k
        /\ containers_[i][1] = <<"*">>
        /\ containers_[k][1] # <<"*">>
        /\ fnmatch(created.filename, containers_[k][1])
        /\ containers_[i][2] # containers_[k][2]
        /\ created.instance.class = containers_[i][2]

\* C7: create on a filename that no registered pattern matches raises
\* ImproperlyConfigured and constructs nothing, the empty registration
\* list included.
C7_NoMatchRaises ==
    ( /\ created # NoCall
      /\ \A i \in 1..Len(containers_) : ~fnmatch(created.filename, containers_[i][1]) )
    => ( /\ created.outcome = "raise"
         /\ created.error = "ImproperlyConfigured"
         /\ created.instance = NoInstance )

\* A create that failed on a non-empty registration list.
C7_Witness ==
    /\ created # NoCall
    /\ Len(containers_) > 0
    /\ \A i \in 1..Len(containers_) : ~fnmatch(created.filename, containers_[i][1])
    /\ created.outcome = "raise"

----
\* C2: save on a FileNameListContainer or a FeretContainer raises the
\* not-implemented error kind, whatever the annotations, the filename and
\* the state of the container.
C2_SaveUnsupported ==
    ( /\ ret.op = "save"
      /\ cls \in {"FileNameListContainer", "FeretContainer"} )
    => ( /\ ret.outcome = "raise"
         /\ ret.error = "NotImplementedException" )

\* C3 as claimed: a load whose parse primitive fails raises the primitive's
\* error and leaves filename() as it was before the call.
C3_FailedLoadKeepsFilename ==
    ( /\ ret.op = "load"
      /\ ret.parseCalled
      /\ ret.outcome = "raise" )
    => ( /\ ret.error = ret.raised
         /\ filename_ = ret.before )

\* C3 as the code has it: load binds filename_ before it calls the parse
\* primitive, so a load of a non-empty filename f whose parse fails raises
\* the primitive's error unchanged and leaves filename() = f; after every
\* call filename() is unset (never bound, or cleared), or the filename of
\* the latest load that got past the argument check, or the path of the
\* latest save that returned.
C3_LoadBindsBeforeParse ==
    /\ ( ret.op = "load" /\ ret.arg \notin Falsy )
       => ( /\ ret.parseCalled
            /\ ret.error = ret.raised
            /\ filename_ = ret.arg )
    /\ ( ret.op = "load" /\ ret.arg \in Falsy ) => filename_ = ret.before
    /\ ( ret.op = "save" /\ ret.outcome = "return" ) => filename_ = ret.passed
    /\ ( ret.op = "save" /\ ret.outcome = "raise" ) => filename_ = ret.before
    /\ ret.op = "_fullpath" => filename_ = ret.before
    /\ ret.op \in {"clear", "none"} => filename_ = None

\* A load whose parse primitive failed on a container bound to another file.
C3_Witness ==
    /\ ret.op = "load"
    /\ ret.parseCalled
    /\ ret.outcome = "raise"
    /\ ret.before \notin {None, ret.arg}
    /\ filename_ = ret.arg

\* C4: save with an empty filename hands filename() to the serialize
\* primitive, save with a non-empty filename hands that filename, and a
\* save that returns leaves filename() equal to the path it handed over.
C4_SaveTarget ==
    ret.op = "save" =>
        /\ ret.arg = <<>> => ret.passed = ret.before
        /\ ret.arg # <<>> => ret.passed = ret.arg
        /\ ret.outcome = "return" =>
              /\ filename_ = ret.passed
              /\ ret.passed \in DOMAIN disk

\* A save with an empty filename that returned after a save to an explicit
\* path: it wrote to that path again.
C4_Witness ==
    /\ ret.op = "save"
    /\ ret.arg = <<>>
    /\ ret.outcome = "return"
    /\ ret.before # None
    /\ ret.passed = ret.before
    /\ ret.before \in DOMAIN saved
    /\ filename_ = ret.before

\* C6: load with an empty or missing filename raises
\* InvalidArgumentException before the parse primitive is called and
\* before any file is opened, for every class and state.
C6_EmptyLoadRejected ==
    ( ret.op = "load" /\ ret.arg \in Falsy )
    => ( /\ ret.outcome = "raise"
         /\ ret.error = "InvalidArgumentException"
         /\ ~ret.parseCalled
         /\ ~ret.opened )

\* A rejected load on a container that is bound to a file.
C6_Witness ==
    /\ ret.op = "load"
    /\ ret.arg = <<>>
    /\ ret.before # None
    /\ ret.error = "InvalidArgumentException"

----
\* C5, stated on the characters of the paths.

IsPrefix(d, s) == Len(d) <= Len(s) /\ SubSeq(s, 1, Len(d)) = d

\* d is the directory component of f: the part before the last "/", with
\* the slashes that end it removed unless it consists of slashes only.
IsDirectoryOf(d, f) ==
    IF \A i \in 1..Len(f) : f[i] # "/" THEN d = <<>>
    ELSE \E k \in 1..Len(f) :
            /\ f[k] = "/"
            /\ \A i \in (k + 1)..Len(f) : f[i] # "/"
            /\ IsPrefix(d, f)
            /\ Len(d) <= k
            /\ \A i \in (Len(d) + 1)..k : f[i] = "/"
            /\ \/ d # <<>> /\ d[Len(d)] # "/"
               \/ Len(d) = k /\ AllSlashes(d)

\* v is p placed under directory d: p itself for an empty d, else d and p
\* with exactly one "/" between the last name of d and p.
IsJoined(v, d, p) ==
    IF d = <<>> THEN v = p
    ELSE /\ IsPrefix(d, v)
         /\ Len(v) >= Len(p)
         /\ SubSeq(v, Len(v) - Len(p) + 1, Len(v)) = p
         /\ Len(v) - Len(p) \in {Len(d), Len(d) + 1}
         /\ v[Len(v) - Len(p)] = "/"
         /\ d[Len(d)] = "/" => Len(v) = Len(d) + Len(p)

IsAbsolute(p) == p # <<>> /\ Head(p) = "/"

\* C5: _fullpath(p) is p when no label file is bound, p when p is
\* absolute, and otherwise p joined onto the directory component of the
\* bound label file.
C5_Fullpath ==
    ret.op = "_fullpath" =>
        /\ filename_ = None => ret.value = ret.arg
        /\ IsAbsolute(ret.arg) => ret.value = ret.arg
        /\ ( filename_ # None /\ ~IsAbsolute(ret.arg) )
           => \E n \in 0..Len(filename_) :
                 /\ IsDirectoryOf(SubSeq(filename_, 1, n), filename_)
                 /\ IsJoined(ret.value, SubSeq(filename_, 1, n), ret.arg)

\* An absolute path resolved on a container bound to a file in a relative
\* directory.
C5_Witness ==
    /\ ret.op = "_fullpath"
    /\ filename_ # None
    /\ ~IsAbsolute(filename_)
    /\ \E i \in 2..Len(filename_) : filename_[i] = "/"
    /\ Len(ret.arg) > 1
    /\ IsAbsolute(ret.arg)
    /\ ret.value = ret.arg

----
----
\* The lines of a text, stated on character positions.

\* The positions that end a line: every "\n", and the last character of a
\* text that does not end in "\n".
LineEnds(t) ==
    { i \in 1..Len(t) : t[i] = "\n" \/ i = Len(t) }

\* The end of line i: the line end with i - 1 line ends before it.
LineEnd(t, i) ==
    CHOOSE e \in LineEnds(t) : Cardinality({ d \in LineEnds(t) : d < e }) = i - 1

LineStart(t, i) == IF i = 1 THEN 1 ELSE LineEnd(t, i - 1) + 1

NumLines(t) == Cardinality(LineEnds(t))

BlankLine(t, i) ==
    \A j \in LineStart(t, i)..LineEnd(t, i) : t[j] \in Whitespace

\* f is the characters a..b of t without the whitespace around them.
IsTrimOf(f, t, a, b) ==
    \E p \in a..(b + 1) : \E q \in (p - 1)..b :
        /\ f = SubSeq(t, p, q)
        /\ \A j \in a..(p - 1) : t[j] \in Whitespace
        /\ \A j \in (q + 1)..b : t[j] \in Whitespace
        /\ p <= q => t[p] \notin Whitespace /\ t[q] \notin Whitespace

\* The number of whitespace-separated fields between a and b.
FieldCount(t, a, b) ==
    Cardinality({ j \in a..b :
        /\ t[j] \notin Whitespace
        /\ j = a \/ t[j - 1] \in Whitespace })

\* C9's malformed line: not exactly 7 fields, or a coordinate field that
\* is not an integer.
MalformedFeretLine(t, i) ==
    \/ FieldCount(t, LineStart(t, i), LineEnd(t, i)) # 7
    \/ LET s == split(SubSeq(t, LineStart(t, i), LineEnd(t, i))) IN
       \E k \in 2..7 : k <= Len(s) /\ ~IsInt(s[k])

\* The call under study: a load of the generated file by class c.
Parsed(c) == cls = c /\ ret.op = "load" /\ ret.arg = ParsePath

\* C9: FeretContainer.parseFromFile raises and returns no record whenever
\* some line of the file is malformed (fewer or more than 7 fields, or a
\* coordinate that is not an integer).
C9_MalformedLineFails ==
    ( /\ Parsed("FeretContainer")
      /\ \E i \in 1..NumLines(disk[ParsePath]) :
            MalformedFeretLine(disk[ParsePath], i) )
    => ret.outcome = "raise"

\* C10 as claimed: FileNameListContainer.parseFromFile returns one record
\* for each line that is non-empty once trimmed, and no other record.
C10_OnlyNonBlankLines ==
    Parsed("FileNameListContainer") =>
        /\ ret.outcome = "return"
        /\ Len(ret.value)
             = Cardinality({ i \in 1..NumLines(disk[ParsePath]) :
                                ~BlankLine(disk[ParsePath], i) })
        /\ \A k \in 1..Len(ret.value) : ret.value[k].filename # <<>>

\* C10 as the code has it: FileNameListContainer.parseFromFile returns one
\* record for every line of the file, blank lines included, in input
\* order; record i has the trimmed line i as filename (the empty string
\* for a blank line), type "image" and no annotations.
C10_OneRecordPerLine ==
    Parsed("FileNameListContainer") =>
        /\ ret.outcome = "return"
        /\ Len(ret.value) = NumLines(disk[ParsePath])
        /\ \A i \in 1..Len(ret.value) :
            /\ ret.value[i].type = "image"
            /\ ret.value[i].annotations = <<>>
            /\ IsTrimOf(ret.value[i].filename, disk[ParsePath],
                        LineStart(disk[ParsePath], i), LineEnd(disk[ParsePath], i))

\* A parsed file with a blank line before a filename.
C10_Witness ==
    /\ Parsed("FileNameListContainer")
    /\ Len(ret.value) = 2
    /\ BlankLine(disk[ParsePath], 1)
    /\ ret.value[1].filename = <<>>
    /\ ret.value[2].filename = <<"s">>

====
